---- MODULE Spec2Model ----
(***************************************************************************)
(* s3-gateway: the response builder (src/response.rs) and the process      *)
(* entry point that runs the gateway and management listeners (src/main.rs)*)
(*                                                                         *)
(* Two specifications share the variables:                                 *)
(*   Spec        one call of easy_response or s3_object_response, with     *)
(*               the inputs drawn at Init and the storage client's         *)
(*               answers drawn at each await;                              *)
(*   SpecRuntime main(): the two listeners polled by join, then the        *)
(*               reporting of both results.                                *)
(*                                                                         *)
(* Text is modelled as follows.  A body, a log line and an error detail    *)
(* are TLA+ strings.  A header value and a redirect path are sequences of  *)
(* chunks (strings), so that a value is valid or not by the bytes it       *)
(* holds.  An object key is a sequence of tokens, where "." and "/" are    *)
(* the dot and the path separator and every other token is a run of        *)
(* letters.                                                                *)
(***************************************************************************)
EXTENDS Integers, Sequences, FiniteSets, TLC

VARIABLES
    \* ---- one call of the response builder ----
    fn,                         \* the function called
    status_code,                \* easy_response's argument
    key,                        \* s3_object_response's key
    no_such_key_redirect_path,  \* s3_object_response's Option<String>
    pc,                         \* position of the call
    outcome,                    \* what the storage client answered
    log,                        \* lines written with tracing::warn!/error!
    ret,                        \* the Result the call returned
    \* ---- main() ----
    main_pc,                    \* position of main()
    addr_ok,                    \* per listener: can its address be bound
    listener,                   \* per listener: its state
    join_output,                \* per listener: the Result its future yielded
    served,                     \* per listener: requests answered
    reported                    \* listeners whose failure main() logged

builder_vars == <<fn, status_code, key, no_such_key_redirect_path, pc, outcome, log, ret>>
runtime_vars == <<main_pc, addr_ok, listener, join_output, served, reported>>
vars == <<fn, status_code, key, no_such_key_redirect_path, pc, outcome, log, ret,
          main_pc, addr_ok, listener, join_output, served, reported>>

(***************************************************************************)
(* Bounds                                                                  *)
(***************************************************************************)
MaxKeyLen == 3
MaxPathLen == 2
MaxRequests == 2

RECURSIVE SeqsUpTo(_, _)
SeqsUpTo(S, n) ==
    IF n = 0 THEN {<<>>}
    ELSE LET shorter == SeqsUpTo(S, n - 1)
         IN  shorter \cup {Append(s, x) : s \in {t \in shorter : Len(t) = n - 1}, x \in S}

(***************************************************************************)
(* Inputs                                                                  *)
(***************************************************************************)
\* hyper::StatusCode holds 100..=999
StatusCodes == 100..999

KeyTokens == {"noext", "html", "HTML", "css", ".", "/"}
Keys == SeqsUpTo(KeyTokens, MaxKeyLen)

\* chunks a configured redirect path is made of; "\n" and "\r" are control bytes
PathChunks == {"/404.html", "/", "\n", "\r"}
ControlChunks == {"\n", "\r"}
None == [some |-> FALSE, val |-> <<>>]
Some(v) == [some |-> TRUE, val |-> v]
RedirectPaths == {None} \cup {Some(p) : p \in SeqsUpTo(PathChunks, MaxPathLen)}

\* bodies of stored objects; the empty object is one of them
ObjectBytes == {"", "<html></html>", "Not Found"}

\* what a failure carries and the log shows
ErrorDetails == {"AccessDenied arn:aws:s3:::bucket", "connection reset by 10.0.0.7"}

\* SdkError<GetObjectError>
SdkErrorKinds == {"ServiceError:NoSuchKey", "ServiceError:InvalidObjectState",
                  "ServiceError:Unhandled", "TimeoutError", "DispatchFailure"}
SdkErrors == [kind : SdkErrorKinds, detail : ErrorDetails]

(***************************************************************************)
(* http / hyper response builder                                           *)
(***************************************************************************)
TEXT_PLAIN == <<"text/plain">>

\* HeaderValue::try_from: every byte is visible ASCII or a tab
is_valid_header_value(v) == \A i \in 1..Len(v) : v[i] \notin ControlChunks

Ok(r) == [tag |-> "Ok", resp |-> r]
Err(e) == [tag |-> "Err", err |-> e]
NoResult == [tag |-> "None"]

\* hyper::Response::builder(): the parts so far, or the first error
builder == [failed |-> FALSE, status |-> 200, headers |-> <<>>]
with_status(b, code) == IF b.failed THEN b ELSE [b EXCEPT !.status = code]
\* variant: a header set later replaces the headers set before
with_header_replace(b, name, value) ==
    IF b.failed THEN b
    ELSE IF is_valid_header_value(value)
         THEN [b EXCEPT !.headers = <<<<name, value>>>>]
         ELSE [b EXCEPT !.failed = TRUE]
with_header(b, name, value) ==
    IF b.failed THEN b
    ELSE IF is_valid_header_value(value)
         THEN [b EXCEPT !.headers = Append(@, <<name, value>>)]
         ELSE [b EXCEPT !.failed = TRUE]
\* .body(...)? : the response, or the builder's error returned to the caller
with_body(b, body) ==
    IF b.failed THEN Err("InvalidHeaderValue")
    ELSE Ok([status |-> b.status, headers |-> b.headers, body |-> body])

\* full(chunk): the body holding exactly the bytes of chunk
full(chunk) == chunk

(***************************************************************************)
(* easy_response                                                           *)
(***************************************************************************)
\* variant: the arm for METHOD_NOT_ALLOWED is missing
easy_response_body_no_405(code) ==
    CASE code = 200 -> full("OK")
      [] code = 400 -> full("Bad Request")
      [] code = 404 -> full("Not Found")
      [] code = 500 -> full("Internal Server Error")
      [] OTHER -> full("Unknown")

easy_response_body(code) ==
    CASE code = 200 -> full("OK")
      [] code = 400 -> full("Bad Request")
      [] code = 404 -> full("Not Found")
      [] code = 405 -> full("Method Not Allowed")
      [] code = 500 -> full("Internal Server Error")
      [] OTHER -> full("Unknown")

easy_response(code) ==
    with_body(with_status(with_header(builder, "Content-Type", TEXT_PLAIN), code),
              easy_response_body(code))

(***************************************************************************)
(* mime_guess::from_path(key).first_or(TEXT_PLAIN)                         *)
(***************************************************************************)
\* the path's components, split at "/"
RECURSIVE Split(_, _, _)
Split(k, i, cur) ==
    IF i > Len(k) THEN <<cur>>
    ELSE IF k[i] = "/" THEN <<cur>> \o Split(k, i + 1, <<>>)
         ELSE Split(k, i + 1, Append(cur, k[i]))

\* Path::file_name: the last component, unless there is none or it is ".."
\* (empty components and "." components are skipped)
NormalComponents(k) ==
    SelectSeq(Split(k, 1, <<>>), LAMBDA c : c # <<>> /\ c # <<".">>)
file_name(k) ==
    LET comps == NormalComponents(k)
    IN  IF comps = <<>> THEN None
        ELSE IF comps[Len(comps)] = <<".", ".">> THEN None
             ELSE Some(comps[Len(comps)])

\* Path::extension: what follows the last dot of the file name, when the
\* dot is not the file name's first byte
LastDot(f) ==
    LET dots == {i \in 1..Len(f) : f[i] = "."}
    IN  IF dots = {} THEN 0 ELSE CHOOSE i \in dots : \A j \in dots : j <= i
extension(k) ==
    LET f == file_name(k)
    IN  IF ~f.some THEN None
        ELSE LET d == LastDot(f.val)
             IN  IF d <= 1 THEN None
                 ELSE Some(SubSeq(f.val, d + 1, Len(f.val)))

\* the extension table is searched without regard to case
to_ascii_lowercase(tok) == IF tok = "HTML" THEN "html" ELSE tok
mime_types == [html |-> <<"text/html">>, css |-> <<"text/css">>]
from_ext(ext) ==
    IF Len(ext) = 1 /\ to_ascii_lowercase(ext[1]) \in DOMAIN mime_types
    THEN Some(mime_types[to_ascii_lowercase(ext[1])])
    ELSE None
from_path(k) ==
    LET e == extension(k)
    IN  IF e.some THEN from_ext(e.val) ELSE None
first_or(guess, default) == IF guess.some THEN guess.val ELSE default

(***************************************************************************)
(* get_s3_object_error                                                     *)
(***************************************************************************)
\* SdkError::into_service_error: the service's error, or Unhandled
into_service_error(e) ==
    CASE e.kind = "ServiceError:NoSuchKey" -> "NoSuchKey"
      [] e.kind = "ServiceError:InvalidObjectState" -> "InvalidObjectState"
      [] OTHER -> "Unhandled"
is_no_such_key(service_error) == service_error = "NoSuchKey"

\* variant: the redirect is applied to every failure, not only to NoSuchKey
get_s3_object_error_redirect_any(error, redirect) ==
    IF redirect.some
    THEN with_body(
           with_header(
             with_header(with_status(builder, 302), "Content-Type", TEXT_PLAIN),
             "Location", redirect.val),
           full("Found"))
    ELSE IF is_no_such_key(into_service_error(error))
         THEN easy_response(404)
         ELSE easy_response(500)

\* variant: the redirect response has no Location header
get_s3_object_error_no_location(error, redirect) ==
    IF is_no_such_key(into_service_error(error))
    THEN IF redirect.some
         THEN with_body(with_header(with_status(builder, 302), "Content-Type", TEXT_PLAIN),
                        full("Found"))
         ELSE easy_response(404)
    ELSE easy_response(500)

\* variant: the 404 without a redirect path is built by hand, without Content-Type
get_s3_object_error_bare_404(error, redirect) ==
    IF is_no_such_key(into_service_error(error))
    THEN IF redirect.some
         THEN with_body(
                with_header(
                  with_header(with_status(builder, 302), "Content-Type", TEXT_PLAIN),
                  "Location", redirect.val),
                full("Found"))
         ELSE with_body(with_status(builder, 404), full("Not Found"))
    ELSE easy_response(500)

\* variant: the 500 carries the failure's detail as its body
get_s3_object_error_leak(error, redirect) ==
    IF is_no_such_key(into_service_error(error))
    THEN IF redirect.some
         THEN with_body(
                with_header(
                  with_header(with_status(builder, 302), "Content-Type", TEXT_PLAIN),
                  "Location", redirect.val),
                full("Found"))
         ELSE easy_response(404)
    ELSE with_body(with_status(with_header(builder, "Content-Type", TEXT_PLAIN), 500),
                   full(error.detail))

get_s3_object_error(error, redirect) ==
    IF is_no_such_key(into_service_error(error))
    THEN IF redirect.some
         THEN with_body(
                with_header(
                  with_header(with_status(builder, 302), "Content-Type", TEXT_PLAIN),
                  "Location", redirect.val),
                full("Found"))
         ELSE easy_response(404)
    ELSE easy_response(500)

\* the line tracing::warn! writes
get_s3_object_error_log(error) == <<"WARN", "Failed to get object", error.detail>>

(***************************************************************************)
(* s3_object_response, after the body was collected                        *)
(***************************************************************************)
\* variant: an empty body gets no Content-Type
object_response_skip_empty(k, b) ==
    LET content_type == first_or(from_path(k), TEXT_PLAIN)
    IN  IF b = ""
        THEN with_body(with_status(builder, 200), full(b))
        ELSE with_body(with_header(with_status(builder, 200), "Content-Type", content_type),
                       full(b))

object_response(k, b) ==
    LET content_type == first_or(from_path(k), TEXT_PLAIN)
    IN  with_body(with_header(with_status(builder, 200), "Content-Type", content_type),
                  full(b))

collect_error_response == easy_response(500)
collect_error_log(detail) == <<"ERROR", "Failed to collect body", detail>>

(***************************************************************************)
(* main(): the listeners and the join                                      *)
(***************************************************************************)
\* the two servers main() builds, in the order join polls them
Listeners == {"gateway", "management"}

Pending == [tag |-> "Pending", err |-> "-"]
ServerOk == [tag |-> "Ok", err |-> "-"]
ServerErr(e) == [tag |-> "Err", err |-> e]

\* variant: try_join, ready as soon as one future yields an error
join_ready_try(out) ==
    \/ \E l \in Listeners : out[l].tag = "Err"
    \/ \A l \in Listeners : out[l].tag # "Pending"

\* variant: select, ready as soon as one future yields
join_ready_select(out) == \E l \in Listeners : out[l].tag # "Pending"

\* join(gateway, management).await is ready when both futures have yielded
join_ready(out) == \A l \in Listeners : out[l].tag # "Pending"

\* result.unwrap_or_else(|e| tracing::error!(...)): an error is logged
report(result) == IF result.tag = "Err" THEN "logged" ELSE "unit"

(***************************************************************************)
(* Initial states                                                          *)
(***************************************************************************)
BuilderIdle ==
    /\ fn = "none"
    /\ status_code = 200
    /\ key = <<>>
    /\ no_such_key_redirect_path = None
    /\ pc = "return"
    /\ outcome = [kind |-> "Pending", detail |-> "-", bytes |-> ""]
    /\ log = <<>>
    /\ ret = NoResult

RuntimeIdle ==
    /\ main_pc = "done"
    /\ addr_ok = [l \in Listeners |-> TRUE]
    /\ listener = [l \in Listeners |-> "Stopped"]
    /\ join_output = [l \in Listeners |-> ServerOk]
    /\ served = [l \in Listeners |-> 0]
    /\ reported = {}

\* a call of the response builder with its arguments
Init ==
    /\ RuntimeIdle
    /\ pc = "call"
    /\ outcome = [kind |-> "Pending", detail |-> "-", bytes |-> ""]
    /\ log = <<>>
    /\ ret = NoResult
    /\ \/ /\ fn = "easy_response"
          /\ status_code \in StatusCodes
          /\ key = <<>>
          /\ no_such_key_redirect_path = None
       \/ /\ fn = "s3_object_response"
          /\ status_code = 200
          /\ key \in Keys
          /\ no_such_key_redirect_path \in RedirectPaths

\* main() before the servers are built
InitRuntime ==
    /\ BuilderIdle
    /\ main_pc = "build"
    /\ addr_ok \in [Listeners -> BOOLEAN]
    /\ listener = [l \in Listeners |-> "Starting"]
    /\ join_output = [l \in Listeners |-> Pending]
    /\ served = [l \in Listeners |-> 0]
    /\ reported = {}

(***************************************************************************)
(* Actions of the response builder                                         *)
(***************************************************************************)
EasyResponse ==
    /\ fn = "easy_response"
    /\ pc = "call"
    /\ ret' = easy_response(status_code)
    /\ pc' = "return"
    /\ UNCHANGED <<fn, status_code, key, no_such_key_redirect_path, outcome, log>>
    /\ UNCHANGED runtime_vars

\* get_object().send().await yields the object
SendOk ==
    /\ fn = "s3_object_response"
    /\ pc = "call"
    /\ pc' = "collect"
    /\ UNCHANGED <<fn, status_code, key, no_such_key_redirect_path, outcome, log, ret>>
    /\ UNCHANGED runtime_vars

\* get_object().send().await fails
SendErr(e) ==
    /\ fn = "s3_object_response"
    /\ pc = "call"
    /\ outcome' = [kind |-> e.kind, detail |-> e.detail, bytes |-> ""]
    /\ log' = Append(log, get_s3_object_error_log(e))
    /\ ret' = get_s3_object_error(e, no_such_key_redirect_path)
    /\ pc' = "return"
    /\ UNCHANGED <<fn, status_code, key, no_such_key_redirect_path>>
    /\ UNCHANGED runtime_vars

\* body.collect().await yields the bytes
CollectOk(b) ==
    /\ pc = "collect"
    /\ outcome' = [kind |-> "Found", detail |-> "-", bytes |-> b]
    /\ ret' = object_response(key, b)
    /\ pc' = "return"
    /\ UNCHANGED <<fn, status_code, key, no_such_key_redirect_path, log>>
    /\ UNCHANGED runtime_vars

\* body.collect().await fails
CollectErr(detail) ==
    /\ pc = "collect"
    /\ outcome' = [kind |-> "CollectError", detail |-> detail, bytes |-> ""]
    /\ log' = Append(log, collect_error_log(detail))
    /\ ret' = collect_error_response
    /\ pc' = "return"
    /\ UNCHANGED <<fn, status_code, key, no_such_key_redirect_path>>
    /\ UNCHANGED runtime_vars

Next ==
    \/ EasyResponse
    \/ SendOk
    \/ \E e \in SdkErrors : SendErr(e)
    \/ \E b \in ObjectBytes : CollectOk(b)
    \/ \E d \in ErrorDetails : CollectErr(d)

Spec == Init /\ [][Next]_vars

(***************************************************************************)
(* Actions of main() and of the listeners                                  *)
(***************************************************************************)
\* Server::builder().addr(..).build(), twice; the futures do not run yet
BuildServers ==
    /\ main_pc = "build"
    /\ main_pc' = "join"
    /\ UNCHANGED <<addr_ok, listener, join_output, served, reported>>
    /\ UNCHANGED builder_vars

\* a listener's future runs only while join polls it
Bind(l) ==
    /\ main_pc = "join"
    /\ listener[l] = "Starting"
    /\ addr_ok[l]
    /\ listener' = [listener EXCEPT ![l] = "Serving"]
    /\ UNCHANGED <<main_pc, addr_ok, join_output, served, reported>>
    /\ UNCHANGED builder_vars

BindFail(l) ==
    /\ main_pc = "join"
    /\ listener[l] = "Starting"
    /\ ~addr_ok[l]
    /\ listener' = [listener EXCEPT ![l] = "Failed"]
    /\ join_output' = [join_output EXCEPT ![l] = ServerErr("AddrInUse")]
    /\ UNCHANGED <<main_pc, addr_ok, served, reported>>
    /\ UNCHANGED builder_vars

Serve(l) ==
    /\ main_pc = "join"
    /\ listener[l] = "Serving"
    /\ served[l] < MaxRequests
    /\ served' = [served EXCEPT ![l] = @ + 1]
    /\ UNCHANGED <<main_pc, addr_ok, listener, join_output, reported>>
    /\ UNCHANGED builder_vars

AcceptFail(l) ==
    /\ main_pc = "join"
    /\ listener[l] = "Serving"
    /\ listener' = [listener EXCEPT ![l] = "Failed"]
    /\ join_output' = [join_output EXCEPT ![l] = ServerErr("AcceptError")]
    /\ UNCHANGED <<main_pc, addr_ok, served, reported>>
    /\ UNCHANGED builder_vars

Shutdown(l) ==
    /\ main_pc = "join"
    /\ listener[l] = "Serving"
    /\ listener' = [listener EXCEPT ![l] = "Stopped"]
    /\ join_output' = [join_output EXCEPT ![l] = ServerOk]
    /\ UNCHANGED <<main_pc, addr_ok, served, reported>>
    /\ UNCHANGED builder_vars

\* join(..).await returns; a future that has not yielded is dropped with it
JoinComplete ==
    /\ main_pc = "join"
    /\ join_ready(join_output)
    /\ main_pc' = "report_gateway"
    /\ listener' = [l \in Listeners |->
                      IF listener[l] \in {"Starting", "Serving"} THEN "Dropped"
                      ELSE listener[l]]
    /\ UNCHANGED <<addr_ok, join_output, served, reported>>
    /\ UNCHANGED builder_vars

Report(l, next_pc) ==
    /\ LET r == report(join_output[l])
       IN  /\ main_pc' = IF r = "panic" THEN "panicked" ELSE next_pc
           /\ reported' = IF r = "logged" THEN reported \cup {l} ELSE reported
    /\ UNCHANGED <<addr_ok, listener, join_output, served>>
    /\ UNCHANGED builder_vars

ReportGateway ==
    /\ main_pc = "report_gateway"
    /\ Report("gateway", "report_management")

\* then main() returns Ok(())
ReportManagement ==
    /\ main_pc = "report_management"
    /\ Report("management", "done")

NextRuntime ==
    \/ BuildServers
    \/ \E l \in Listeners : Bind(l)
    \/ \E l \in Listeners : BindFail(l)
    \/ \E l \in Listeners : Serve(l)
    \/ \E l \in Listeners : AcceptFail(l)
    \/ \E l \in Listeners : Shutdown(l)
    \/ JoinComplete
    \/ ReportGateway
    \/ ReportManagement

SpecRuntime == InitRuntime /\ [][NextRuntime]_vars

(***************************************************************************)
(* Properties of the response builder (under Spec)                         *)
(***************************************************************************)
ObjectReturned == fn = "s3_object_response" /\ pc = "return"
IsNotFound == outcome.kind = "ServiceError:NoSuchKey"
IsTransient ==
    outcome.kind \in (SdkErrorKinds \ {"ServiceError:NoSuchKey"}) \cup {"CollectError"}
IsFound == outcome.kind = "Found"

\* the values a response carries under a header name
HeaderValues(resp, name) ==
    {resp.headers[i][2] : i \in {j \in 1..Len(resp.headers) : resp.headers[j][1] = name}}
HasControlByte(path) == \E i \in 1..Len(path) : path[i] \in {"\n", "\r"}

\* C1: every transient failure (a get-object failure other than "no such
\* key", or a failure while collecting the body) is answered with status 500
\* and the body "Internal Server Error", whatever the redirect path is.
C1_TransientErrorIs500 ==
    (ObjectReturned /\ IsTransient) =>
        /\ ret.tag = "Ok"
        /\ ret.resp.status = 500
        /\ ret.resp.body = "Internal Server Error"
        /\ HeaderValues(ret.resp, "Location") = {}

C1_Witness ==
    /\ ObjectReturned
    /\ outcome.kind = "TimeoutError"
    /\ no_such_key_redirect_path = Some(<<"/404.html">>)
    /\ ret.tag = "Ok"
    /\ ret.resp.status = 500

\* C2 as stated: every NotFound outcome with a redirect path configured is
\* answered with 302, Location = the redirect path, body "Found" and
\* Content-Type text/plain.
C2_RedirectForEveryPath ==
    (ObjectReturned /\ IsNotFound /\ no_such_key_redirect_path.some) =>
        /\ ret.tag = "Ok"
        /\ ret.resp.status = 302
        /\ HeaderValues(ret.resp, "Location") = {no_such_key_redirect_path.val}
        /\ HeaderValues(ret.resp, "Content-Type") = {<<"text/plain">>}
        /\ ret.resp.body = "Found"

\* C2 amended: every NotFound outcome with a redirect path that is a valid
\* header value (no control byte) is answered with 302, Location = the
\* redirect path, body "Found" and Content-Type text/plain, for any key.
C2_RedirectForValidPath ==
    (/\ ObjectReturned
     /\ IsNotFound
     /\ no_such_key_redirect_path.some
     /\ ~HasControlByte(no_such_key_redirect_path.val)) =>
        /\ ret.tag = "Ok"
        /\ ret.resp.status = 302
        /\ HeaderValues(ret.resp, "Location") = {no_such_key_redirect_path.val}
        /\ HeaderValues(ret.resp, "Content-Type") = {<<"text/plain">>}
        /\ ret.resp.body = "Found"

C2_Witness ==
    /\ ObjectReturned
    /\ IsNotFound
    /\ no_such_key_redirect_path = Some(<<"/404.html">>)
    /\ key = <<"noext", ".", "html">>
    /\ ret.tag = "Ok"
    /\ ret.resp.status = 302

\* C3: a NotFound outcome without a redirect path is answered with exactly
\* the response easy_response(404) returns: status 404, the single header
\* Content-Type text/plain, body "Not Found".
C3_NotFoundIsEasy404 ==
    (ObjectReturned /\ IsNotFound /\ ~no_such_key_redirect_path.some) =>
        /\ ret = easy_response(404)
        /\ ret = Ok([status |-> 404,
                     headers |-> <<<<"Content-Type", <<"text/plain">>>>>>,
                     body |-> "Not Found"])

C3_Witness ==
    /\ ObjectReturned
    /\ IsNotFound
    /\ no_such_key_redirect_path = None
    /\ key = <<"noext">>
    /\ ret.tag = "Ok"
    /\ ret.resp.status = 404

\* the MIME type the key's extension maps to, text/plain without one or
\* with one the table does not hold
C4_Expected(k) ==
    LET e == extension(k)
    IN  IF e.some /\ e.val \in {<<"html">>, <<"HTML">>} THEN <<"text/html">>
        ELSE IF e.some /\ e.val = <<"css">> THEN <<"text/css">>
             ELSE <<"text/plain">>

\* C4: a Found outcome is answered with status 200, the fetched bytes as the
\* body and one Content-Type, the MIME type of the key's extension or
\* text/plain; this also when the bytes are empty, whatever the redirect path.
C4_FoundIs200WithGuessedType ==
    (ObjectReturned /\ IsFound) =>
        /\ ret.tag = "Ok"
        /\ ret.resp.status = 200
        /\ ret.resp.body = outcome.bytes
        /\ HeaderValues(ret.resp, "Content-Type") = {C4_Expected(key)}
        /\ HeaderValues(ret.resp, "Location") = {}
        /\ key = <<"noext", ".", "html">> =>
               HeaderValues(ret.resp, "Content-Type") = {<<"text/html">>}
        /\ (\A i \in 1..Len(key) : key[i] # ".") =>
               HeaderValues(ret.resp, "Content-Type") = {<<"text/plain">>}
        /\ (Len(key) >= 2 /\ key[Len(key)] = "noext") =>
               HeaderValues(ret.resp, "Content-Type") = {<<"text/plain">>}

C4_Witness ==
    /\ ObjectReturned
    /\ IsFound
    /\ outcome.bytes = ""
    /\ key = <<"noext", ".", "css">>
    /\ no_such_key_redirect_path.some
    /\ ret.tag = "Ok"
    /\ HeaderValues(ret.resp, "Content-Type") = {<<"text/css">>}

\* C5: easy_response succeeds for every status code; the response has that
\* status, Content-Type text/plain and the fixed non-empty body of the code,
\* "Unknown" for a code outside 200, 400, 404, 405, 500.
C5_EasyResponseTable ==
    (fn = "easy_response" /\ pc = "return") =>
        /\ ret.tag = "Ok"
        /\ ret.resp.status = status_code
        /\ HeaderValues(ret.resp, "Content-Type") = {<<"text/plain">>}
        /\ ret.resp.body # ""
        /\ status_code = 200 => ret.resp.body = "OK"
        /\ status_code = 400 => ret.resp.body = "Bad Request"
        /\ status_code = 404 => ret.resp.body = "Not Found"
        /\ status_code = 405 => ret.resp.body = "Method Not Allowed"
        /\ status_code = 500 => ret.resp.body = "Internal Server Error"
        /\ status_code \notin {200, 400, 404, 405, 500} => ret.resp.body = "Unknown"

C5_Witness ==
    /\ fn = "easy_response"
    /\ pc = "return"
    /\ status_code = 405
    /\ ret.tag = "Ok"
    /\ ret.resp.body = "Method Not Allowed"

\* C6: s3_object_response never returns a failure to its caller: every call
\* returns a response, and a call whose response could not be built because
\* of a malformed header value returns the response of easy_response(500).
C6_NeverPropagatesFailure ==
    ObjectReturned =>
        /\ ret.tag = "Ok"
        /\ (/\ IsNotFound
            /\ no_such_key_redirect_path.some
            /\ HasControlByte(no_such_key_redirect_path.val)) => ret = easy_response(500)

\* C9 as stated: every response carries Content-Type, and every 302 response
\* carries Location.
C9_EveryRedirectHasLocation ==
    (pc = "return" /\ ret.tag = "Ok") =>
        /\ HeaderValues(ret.resp, "Content-Type") # {}
        /\ ret.resp.status = 302 => HeaderValues(ret.resp, "Location") # {}

\* C9 amended: every response the builder returns, for any status code and
\* any storage outcome, carries Content-Type, and every 302 response that
\* s3_object_response returns carries Location; easy_response called with
\* 302 returns a 302 response without Location.
C9_ContentTypeAlwaysLocationOnObjectRedirect ==
    (pc = "return" /\ ret.tag = "Ok") =>
        /\ HeaderValues(ret.resp, "Content-Type") # {}
        /\ (fn = "s3_object_response" /\ ret.resp.status = 302) =>
               HeaderValues(ret.resp, "Location") # {}
        /\ (fn = "easy_response" /\ ret.resp.status = 302) =>
               HeaderValues(ret.resp, "Location") = {}

C9_Witness ==
    /\ ObjectReturned
    /\ ret.tag = "Ok"
    /\ ret.resp.status = 302
    /\ HeaderValues(ret.resp, "Location") = {<<"/", "/404.html">>}
    /\ HeaderValues(ret.resp, "Content-Type") # {}

FixedBodies == {"Found", "Not Found", "Internal Server Error"}
LoggedDetails == {log[i][3] : i \in 1..Len(log)}

\* C10: the body of a returned response is the fetched bytes (Found) or one
\* of the fixed texts; the detail of a storage or body-collection failure is
\* in the log and in no body, no header value and no returned error.
C10_NoErrorDetailInResponse ==
    ObjectReturned =>
        /\ (ret.tag = "Ok" /\ IsFound) => ret.resp.body = outcome.bytes
        /\ (ret.tag = "Ok" /\ ~IsFound) => ret.resp.body \in FixedBodies
        /\ ~IsFound => outcome.detail \in LoggedDetails
        /\ ret.tag = "Ok" =>
               /\ ret.resp.body \notin ErrorDetails
               /\ \A i \in 1..Len(ret.resp.headers) :
                      \A j \in 1..Len(ret.resp.headers[i][2]) :
                          ret.resp.headers[i][2][j] \notin ErrorDetails
        /\ ret.tag = "Err" => ret.err \notin ErrorDetails

C10_Witness ==
    /\ ObjectReturned
    /\ outcome.kind = "DispatchFailure"
    /\ outcome.detail = "connection reset by 10.0.0.7"
    /\ outcome.detail \in LoggedDetails
    /\ ret.tag = "Ok"
    /\ ret.resp.body = "Internal Server Error"

(***************************************************************************)
(* Properties of main() (under SpecRuntime)                                *)
(***************************************************************************)
Terminated(l) == listener[l] \in {"Stopped", "Failed"}
Returned == main_pc \in {"report_gateway", "report_management", "done", "panicked"}
Failures == {l \in Listeners : join_output[l].tag = "Err"}
Successes == {l \in Listeners : join_output[l].tag = "Ok"}

\* C7: a listener's fatal failure is captured as that listener's outcome and
\* no listener is dropped while it is starting or serving; after the join
\* there is one outcome per listener, with one address that cannot be bound
\* and the other listener stopped cleanly exactly one failure and one
\* success; main() does not panic and logs exactly the failures.
C7_ListenersIsolated ==
    /\ \A l \in Listeners : listener[l] # "Dropped"
    /\ \A l \in Listeners : listener[l] = "Failed" <=> join_output[l].tag = "Err"
    /\ \A l \in Listeners : listener[l] = "Stopped" <=> join_output[l].tag = "Ok"
    /\ \A l \in Listeners : join_output[l].err = "AddrInUse" <=> (~addr_ok[l] /\ Terminated(l))
    /\ \A l \in Listeners : served[l] > 0 => addr_ok[l]
    /\ main_pc # "panicked"
    /\ Returned => Failures \cup Successes = Listeners
    /\ (Returned /\ \E l, m \in Listeners :
                        /\ ~addr_ok[l]
                        /\ listener[m] = "Stopped") =>
           (Cardinality(Failures) = 1 /\ Cardinality(Successes) = 1)
    /\ main_pc = "done" => reported = Failures

C7_Witness ==
    /\ main_pc = "done"
    /\ ~addr_ok["gateway"]
    /\ join_output["gateway"] = ServerErr("AddrInUse")
    /\ listener["management"] = "Stopped"
    /\ served["management"] >= 1
    /\ reported = {"gateway"}

\* C8: main() is past the join only when every listener has terminated
\* (Stopped or Failed); while a listener is starting or serving, main()
\* is still at the join.
C8_ReturnsAfterAllTerminated ==
    /\ Returned => \A l \in Listeners : Terminated(l)
    /\ (\E l \in Listeners : listener[l] \in {"Starting", "Serving"}) =>
           main_pc \in {"build", "join"}

C8_Witness ==
    /\ main_pc = "join"
    /\ listener["gateway"] = "Failed"
    /\ listener["management"] = "Serving"
    /\ served["management"] >= 1

====
